---- MODULE Spec2Model ----
(***************************************************************************)
(* A model of github.com/kapetacom/sdk-go-rest-client.                     *)
(*                                                                         *)
(* Strings are sequences of one-character strings, so that lowercasing,    *)
(* suffix trimming, query escaping and sorting are computed the way the Go *)
(* code computes them.                                                     *)
(*                                                                         *)
(* A panic is modelled as an outcome of the goroutine that raised it: its  *)
(* deferred calls run and it ends.  (A caller may recover it; if nobody    *)
(* does the process ends and no further step is taken, which is a prefix   *)
(* of the behaviours modelled here.)                                       *)
(***************************************************************************)
EXTENDS Naturals, Sequences, FiniteSets, TLC

VARIABLES
    \* RestClient (src/go.mod:36-41)
    BaseURL,        \* c.BaseURL
    resourceName,   \* c.resourceName
    ready,          \* c.ready
    mu,             \* c.mu: 0 when unlocked, else the attempt holding it
    autoInit,       \* NewRestClient's autoInit argument (callback registered)
    \* one record of locals per call of RestClient.init
    pc, provider, service, outcome,
    calls,          \* the calls made to provider.GetServiceAddress, in order
    resolved,       \* the value returned by the last ResolveURL call
    \* one call of a verb method (GET, DELETE, PUT, POST, PATCH)
    vpc, verb, url, body, mods, midx, req, applied, dispatched, result,
    \* one call of StructToQueryParams
    data, out

clientVars == <<BaseURL, resourceName, ready, mu, autoInit, pc, provider,
                service, outcome, calls, resolved>>
verbVars == <<vpc, verb, url, body, mods, midx, req, applied, dispatched, result>>
queryVars == <<data, out>>
vars == <<clientVars, verbVars, queryVars>>

(***************************************************************************)
(* Bounds of the model.                                                    *)
(***************************************************************************)
NumAttempts == 2    \* calls of init on one client
MaxMods == 2        \* request modifiers passed to one verb call
MaxFields == 2      \* fields of a struct given to StructToQueryParams

NoString == <<>>    \* Go's ""

(***************************************************************************)
(* strings.ToLower, strings.TrimSuffix, fmt.Sprintf                        *)
(***************************************************************************)
UpperLetters ==
    <<"A", "B", "C", "D", "E", "F", "G", "H", "I", "J", "K", "L", "M",
      "N", "O", "P", "Q", "R", "S", "T", "U", "V", "W", "X", "Y", "Z">>
LowerLetters ==
    <<"a", "b", "c", "d", "e", "f", "g", "h", "i", "j", "k", "l", "m",
      "n", "o", "p", "q", "r", "s", "t", "u", "v", "w", "x", "y", "z">>
Digits == <<"0", "1", "2", "3", "4", "5", "6", "7", "8", "9">>
HexDigits == Digits \o <<"A", "B", "C", "D", "E", "F">>

Range(f) == {f[k] : k \in DOMAIN f}
IndexOf(seq, c) == CHOOSE k \in 1..Len(seq) : seq[k] = c

UpperSet == Range(UpperLetters)
LowerSet == Range(LowerLetters)
DigitSet == Range(Digits)

IsUpper(c) == c \in UpperSet
IsLower(c) == c \in LowerSet
IsDigit(c) == c \in DigitSet

\* The ASCII codes of the other characters the model uses.
PunctCode ==
    ("\t" :> 9) @@ (" " :> 32) @@ ("!" :> 33) @@ ("%" :> 37) @@ ("&" :> 38)
    @@ ("(" :> 40) @@ (")" :> 41) @@ ("+" :> 43) @@ ("-" :> 45) @@ ("." :> 46)
    @@ ("/" :> 47) @@ (":" :> 58) @@ ("=" :> 61) @@ ("?" :> 63) @@ ("_" :> 95)
    @@ ("~" :> 126)

Chars == UpperSet \cup LowerSet \cup DigitSet \cup DOMAIN PunctCode

\* The ASCII code of each character.
CodeTable ==
    [c \in Chars |->
        IF IsUpper(c) THEN 64 + IndexOf(UpperLetters, c)
        ELSE IF IsLower(c) THEN 96 + IndexOf(LowerLetters, c)
        ELSE IF IsDigit(c) THEN 47 + IndexOf(Digits, c)
        ELSE PunctCode[c]]

Code(c) == CodeTable[c]

\* unicode.ToLower on an ASCII character
ToLowerChar(c) == IF IsUpper(c) THEN LowerLetters[IndexOf(UpperLetters, c)] ELSE c

ToLower(s) == [k \in 1..Len(s) |-> ToLowerChar(s[k])]

HasSuffix(s, suffix) ==
    /\ Len(s) >= Len(suffix)
    /\ SubSeq(s, Len(s) - Len(suffix) + 1, Len(s)) = suffix

TrimSuffix(s, suffix) ==
    IF HasSuffix(s, suffix) THEN SubSeq(s, 1, Len(s) - Len(suffix)) ELSE s

RECURSIVE Concat(_)
Concat(ss) == IF ss = <<>> THEN <<>> ELSE Head(ss) \o Concat(Tail(ss))

\* fmt.Sprintf(format, args...) for formats whose only verb is %s: the
\* format is a sequence of literal pieces and "%s" verbs.
Verb_s == <<"%", "s">>
RECURSIVE Sprintf(_, _)
Sprintf(format, args) ==
    IF format = <<>>
    THEN IF args = <<>> THEN <<>>
         ELSE <<"%", "!", "(", "E", "X", "T", "R", "A", ")">>
    ELSE IF Head(format) = Verb_s
         THEN IF args = <<>>
              THEN <<"%", "!", "s", "(", "M", "I", "S", "S", "I", "N", "G", ")">>
                   \o Sprintf(Tail(format), args)
              ELSE Head(args) \o Sprintf(Tail(format), Tail(args))
         ELSE Head(format) \o Sprintf(Tail(format), args)

(***************************************************************************)
(* net/url: QueryEscape, Values.Add, Values.Encode, ParseQuery             *)
(***************************************************************************)
\* shouldEscape(c, encodeQueryComponent): everything but the unreserved
\* characters (letters, digits, - _ . ~) is escaped.
ShouldEscape(c) ==
    ~(IsUpper(c) \/ IsLower(c) \/ IsDigit(c) \/ c \in {"-", "_", ".", "~"})

EscapeChar(c) ==
    IF ~ShouldEscape(c) THEN <<c>>
    ELSE IF c = " " THEN <<"+">>
    ELSE <<"%", HexDigits[(Code(c) \div 16) + 1], HexDigits[(Code(c) % 16) + 1]>>

RECURSIVE QueryEscape(_)
QueryEscape(s) ==
    IF s = <<>> THEN <<>> ELSE EscapeChar(Head(s)) \o QueryEscape(Tail(s))

Unhex(h) == IndexOf(HexDigits, h) - 1
CharOfCode(n) == CHOOSE c \in Chars : Code(c) = n

\* url.QueryUnescape on a string whose % escapes are well formed
RECURSIVE QueryUnescape(_)
QueryUnescape(s) ==
    IF s = <<>> THEN <<>>
    ELSE IF Head(s) = "%"
         THEN <<CharOfCode(16 * Unhex(s[2]) + Unhex(s[3]))>>
              \o QueryUnescape(SubSeq(s, 4, Len(s)))
    ELSE IF Head(s) = "+" THEN <<" ">> \o QueryUnescape(Tail(s))
    ELSE <<Head(s)>> \o QueryUnescape(Tail(s))

\* url.Values is a map from key to the list of its values.
EmptyValues == [k \in {} |-> <<>>]

ValuesAdd(values, key, value) ==
    IF key \in DOMAIN values
    THEN [values EXCEPT ![key] = Append(@, value)]
    ELSE [k \in DOMAIN values \cup {key} |->
             IF k = key THEN <<value>> ELSE values[k]]

\* a < b in Go's string order (bytewise)
RECURSIVE StrLess(_, _)
StrLess(a, b) ==
    IF b = <<>> THEN FALSE
    ELSE IF a = <<>> THEN TRUE
    ELSE IF Head(a) # Head(b) THEN Code(Head(a)) < Code(Head(b))
    ELSE StrLess(Tail(a), Tail(b))

\* sort.Strings applied to the keys of a map
RECURSIVE SortStrings(_)
SortStrings(S) ==
    IF S = {} THEN <<>>
    ELSE LET m == CHOOSE x \in S : \A y \in S : x = y \/ StrLess(x, y)
         IN  <<m>> \o SortStrings(S \ {m})

\* The inner loop of Values.Encode: one key's values appended to buf.
RECURSIVE EncodeKey(_, _, _)
EncodeKey(buf, keyEscaped, vs) ==
    IF vs = <<>> THEN buf
    ELSE EncodeKey((IF buf = <<>> THEN buf ELSE buf \o <<"&">>)
                       \o keyEscaped \o <<"=">> \o QueryEscape(Head(vs)),
                   keyEscaped, Tail(vs))

RECURSIVE EncodeKeys(_, _, _)
EncodeKeys(buf, keys, values) ==
    IF keys = <<>> THEN buf
    ELSE EncodeKeys(EncodeKey(buf, QueryEscape(Head(keys)), values[Head(keys)]),
                    Tail(keys), values)

\* func (v Values) Encode() string
Encode(values) == EncodeKeys(<<>>, SortStrings(DOMAIN values), values)

\* strings.Cut(s, sep) for a one-character sep: <<before, after, found>>
RECURSIVE Cut(_, _)
Cut(s, sep) ==
    IF s = <<>> THEN <<<<>>, <<>>, FALSE>>
    ELSE IF Head(s) = sep THEN <<<<>>, Tail(s), TRUE>>
    ELSE LET r == Cut(Tail(s), sep) IN <<<<Head(s)>> \o r[1], r[2], r[3]>>

\* url.ParseQuery on a query whose escapes are well formed: what the server
\* side's r.URL.Query() returns for a raw query.
RECURSIVE ParseQueryInto(_, _)
ParseQueryInto(values, query) ==
    IF query = <<>> THEN values
    ELSE LET pair == Cut(query, "&")
             kv == Cut(pair[1], "=")
         IN  IF pair[1] = <<>> THEN ParseQueryInto(values, pair[2])
             ELSE ParseQueryInto(
                      ValuesAdd(values, QueryUnescape(kv[1]), QueryUnescape(kv[2])),
                      pair[2])

ParseQuery(query) == ParseQueryInto(EmptyValues, query)

(***************************************************************************)
(* StructToQueryParams (src/utils.go)                                      *)
(***************************************************************************)
\* strconv.Itoa, which fmt's %v uses for an int
RECURSIVE Itoa(_)
Itoa(n) ==
    IF n < 10 THEN <<Digits[n + 1]>>
    ELSE Itoa(n \div 10) \o <<Digits[(n % 10) + 1]>>

\* A field's value: a string or a non-negative int.
StrVal(s) == [t |-> "string", s |-> s, n |-> 0]
IntVal(n) == [t |-> "int", s |-> NoString, n |-> n]

\* fmt.Sprintf("%v", x)
FormatV(x) == IF x.t = "int" THEN Itoa(x.n) ELSE x.s

\* A struct field: its identifier, its `query` tag ("" when it has none) and
\* its value.  Go exports a field exactly when its identifier starts with an
\* upper-case letter.
Field(name, tag, val) == [name |-> name, tag |-> tag, val |-> val]
Exported(f) == IsUpper(Head(f.name))

FieldSet == {
    Field(<<"N", "a", "m", "e">>, <<"n", "a", "m", "e">>, StrVal(<<"j", "o", "h", "n">>)),
    Field(<<"A", "g", "e">>, <<"a", "g", "e">>, IntVal(25)),
    Field(<<"P", "a", "r", "a", "m">>, NoString, StrVal(<<"v", "a", "l", "u", "e">>)),
    Field(<<"B">>, <<"b", "/">>, StrVal(<<"a", " ", "&", "=">>)),
    Field(<<"Q">>, <<"Z", "z">>, IntVal(0)),
    Field(<<"Z", "e", "d">>, <<"n", "a", "m", "e">>, StrVal(NoString)),
    Field(<<"a", "g", "e">>, NoString, IntVal(7)) }

RECURSIVE SeqsUpTo(_, _)
SeqsUpTo(S, n) ==
    IF n = 0 THEN {<<>>}
    ELSE LET shorter == SeqsUpTo(S, n - 1)
         IN  shorter \cup {Append(q, x) : q \in shorter, x \in S}

\* A Go value as reflect sees it: the kind it has once `ptrs` pointers are
\* followed, whether the outermost pointer is nil, and a struct's fields.
\* The nil interface has kind "invalid".
GoValue(kind, ptrs, isNil, fields) ==
    [kind |-> kind, ptrs |-> ptrs, isNil |-> isNil, fields |-> fields]

InvalidValue == GoValue("invalid", 0, FALSE, <<>>)

Structs == {GoValue("struct", 0, FALSE, fs) : fs \in SeqsUpTo(FieldSet, MaxFields)}

NonStructs ==
    {GoValue(k, 0, FALSE, <<>>) : k \in {"string", "int", "bool", "slice", "map"}}
        \cup {InvalidValue}

Inputs ==
    Structs \cup NonStructs
        \cup {GoValue(v.kind, 1, n, v.fields) :
                v \in Structs \cup (NonStructs \ {InvalidValue}), n \in BOOLEAN}
        \cup {GoValue(v.kind, 2, FALSE, v.fields) : v \in Structs}

\* reflect.Value.Kind and reflect.Value.Elem
Kind(v) == IF v.ptrs > 0 THEN "ptr" ELSE v.kind
Elem(v) == IF v.isNil THEN InvalidValue ELSE [v EXCEPT !.ptrs = @ - 1]

\* fieldName := field.Tag.Get("query"); if fieldName == "" { ToLower(field.Name) }
FieldName(f) == IF f.tag = NoString THEN ToLower(f.name) ELSE f.tag

Returned(str, err) == [str |-> str, err |-> err, panicked |-> FALSE]
Panicked == [str |-> NoString, err |-> "nil", panicked |-> TRUE]

\* v.Field(i).Interface() panics on a field that is not exported.
CanInterface(f) == Exported(f)

\* The loop over the fields, from field i on, with the values added so far.
RECURSIVE AddFields(_, _, _)
AddFields(fields, i, queryParams) ==
    IF i > Len(fields) THEN Returned(Encode(queryParams), "nil")
    ELSE IF ~CanInterface(fields[i]) THEN Panicked
    ELSE AddFields(fields, i + 1,
                   ValuesAdd(queryParams, FieldName(fields[i]),
                             FormatV(fields[i].val)))

\* Deref that follows every pointer instead of one.
RECURSIVE DerefAll(_)
DerefAll(v) == IF Kind(v) = "ptr" THEN DerefAll(Elem(v)) ELSE v

\* v := reflect.ValueOf(data); if v.Kind() == reflect.Ptr { v = v.Elem() }
Deref(v) == IF Kind(v) = "ptr" THEN Elem(v) ELSE v

StructToQueryParams(d) ==
    LET v == Deref(d)
    IN  IF Kind(v) # "struct"
        THEN Returned(NoString, "input data must be a struct")
        ELSE AddFields(v.fields, 1, EmptyValues)

NotCalled == [str |-> NoString, err |-> "nil", panicked |-> FALSE, called |-> FALSE]

QueryInit ==
    /\ data \in Inputs
    /\ out = NotCalled

CallStructToQueryParams ==
    /\ ~out.called
    /\ LET r == StructToQueryParams(data)
       IN  out' = [str |-> r.str, err |-> r.err, panicked |-> r.panicked,
                   called |-> TRUE]
    /\ UNCHANGED data

(***************************************************************************)
(* The client: NewRestClient, WithConfigProvider, init, ResolveURL         *)
(***************************************************************************)
serviceType == "rest"

Attempts == 1..NumAttempts

ResourceNames == {<<"r">>, <<"u", "s">>}

\* Addresses a ConfigProvider may return.
Addrs == {
    NoString,
    <<"H", "T", "T", "P", ":", "/", "/", "E", "x", "/">>,
    <<"h", ":", "/", "/", "B", "/", "/">> }

\* A ConfigProvider, as far as init uses it: what GetServiceAddress returns.
Providers ==
    {[addr |-> a, fails |-> FALSE] : a \in Addrs}
        \cup {[addr |-> NoString, fails |-> TRUE]}

NoProvider == [addr |-> NoString, fails |-> TRUE]

ClientInit ==
    /\ resourceName \in ResourceNames
    /\ autoInit \in BOOLEAN
    /\ BaseURL = NoString
    /\ ready = FALSE
    /\ mu = 0
    /\ pc = [i \in Attempts |-> "idle"]
    /\ provider = [i \in Attempts |-> NoProvider]
    /\ service = [i \in Attempts |-> NoString]
    /\ outcome = [i \in Attempts |-> "none"]
    /\ calls = <<>>
    /\ resolved = NoString

\* c.init(config) is entered: by WithConfigProvider, or by the callback that
\* NewRestClient registered with CONFIG.OnReady when autoInit is set.
\* NumAttempts bounds how many times that happens.
\* Attempts are numbered in the order in which they enter init.
Entering(i) == pc[i] = "idle" /\ \A j \in 1..(i - 1) : pc[j] # "idle"

WithConfigProvider(i, p) ==
    /\ Entering(i)
    /\ pc' = [pc EXCEPT ![i] = "lock"]
    /\ provider' = [provider EXCEPT ![i] = p]
    /\ UNCHANGED <<BaseURL, resourceName, ready, mu, autoInit, service,
                   outcome, calls, resolved>>

OnReady(i, p) ==
    /\ autoInit
    /\ Entering(i)
    /\ pc' = [pc EXCEPT ![i] = "lock"]
    /\ provider' = [provider EXCEPT ![i] = p]
    /\ UNCHANGED <<BaseURL, resourceName, ready, mu, autoInit, service,
                   outcome, calls, resolved>>

\* c.mu.Lock()
Lock(i) ==
    /\ pc[i] = "lock"
    /\ mu = 0
    /\ mu' = i
    /\ pc' = [pc EXCEPT ![i] = "check"]
    /\ UNCHANGED <<BaseURL, resourceName, ready, autoInit, provider, service,
                   outcome, calls, resolved>>

\* CheckReady without the guard: a second initialisation goes ahead.
CheckReadyIgnored(i) ==
    /\ pc[i] = "check"
    /\ pc' = [pc EXCEPT ![i] = "resolve"]
    /\ UNCHANGED <<BaseURL, resourceName, ready, mu, autoInit, provider,
                   service, outcome, calls, resolved>>

\* if c.ready { panic("Client already initialized") }
CheckReady(i) ==
    /\ pc[i] = "check"
    /\ IF ready
       THEN /\ pc' = [pc EXCEPT ![i] = "unlock"]
            /\ outcome' = [outcome EXCEPT ![i] = "panicInitialized"]
       ELSE /\ pc' = [pc EXCEPT ![i] = "resolve"]
            /\ UNCHANGED outcome
    /\ UNCHANGED <<BaseURL, resourceName, ready, mu, autoInit, provider,
                   service, calls, resolved>>

\* service, err := provider.GetServiceAddress(c.resourceName, serviceType)
\* if err != nil { panic(...) }
GetServiceAddress(i) ==
    /\ pc[i] = "resolve"
    /\ calls' = Append(calls, [by |-> i, serviceName |-> resourceName,
                               portType |-> serviceType])
    /\ IF provider[i].fails
       THEN /\ pc' = [pc EXCEPT ![i] = "unlock"]
            /\ outcome' = [outcome EXCEPT ![i] = "panicResolver"]
            /\ UNCHANGED service
       ELSE /\ pc' = [pc EXCEPT ![i] = "lower"]
            /\ service' = [service EXCEPT ![i] = provider[i].addr]
            /\ UNCHANGED outcome
    /\ UNCHANGED <<BaseURL, resourceName, ready, mu, autoInit, provider,
                   resolved>>

\* SetLower without the lowercasing.
SetLowerVerbatim(i) ==
    /\ pc[i] = "lower"
    /\ BaseURL' = service[i]
    /\ pc' = [pc EXCEPT ![i] = "trim"]
    /\ UNCHANGED <<resourceName, ready, mu, autoInit, provider, service,
                   outcome, calls, resolved>>

\* c.BaseURL = strings.ToLower(service)
SetLower(i) ==
    /\ pc[i] = "lower"
    /\ BaseURL' = ToLower(service[i])
    /\ pc' = [pc EXCEPT ![i] = "trim"]
    /\ UNCHANGED <<resourceName, ready, mu, autoInit, provider, service,
                   outcome, calls, resolved>>

\* TrimSlash with strings.TrimRight in place of strings.TrimSuffix.
RECURSIVE TrimRight(_, _)
TrimRight(s, c) ==
    IF s # <<>> /\ s[Len(s)] = c THEN TrimRight(SubSeq(s, 1, Len(s) - 1), c) ELSE s

TrimSlashAll(i) ==
    /\ pc[i] = "trim"
    /\ BaseURL' = TrimRight(BaseURL, "/")
    /\ pc' = [pc EXCEPT ![i] = "ready"]
    /\ UNCHANGED <<resourceName, ready, mu, autoInit, provider, service,
                   outcome, calls, resolved>>

\* c.BaseURL = strings.TrimSuffix(c.BaseURL, "/")
TrimSlash(i) ==
    /\ pc[i] = "trim"
    /\ BaseURL' = TrimSuffix(BaseURL, <<"/">>)
    /\ pc' = [pc EXCEPT ![i] = "ready"]
    /\ UNCHANGED <<resourceName, ready, mu, autoInit, provider, service,
                   outcome, calls, resolved>>

\* c.ready = true
SetReady(i) ==
    /\ pc[i] = "ready"
    /\ ready' = TRUE
    /\ pc' = [pc EXCEPT ![i] = "unlock"]
    /\ outcome' = [outcome EXCEPT ![i] = "ok"]
    /\ UNCHANGED <<BaseURL, resourceName, mu, autoInit, provider, service,
                   calls, resolved>>

\* Unlock called at the end of init instead of deferred: a panic skips it.
UnlockOnReturn(i) ==
    /\ pc[i] = "unlock"
    /\ mu' = IF outcome[i] = "ok" THEN 0 ELSE mu
    /\ pc' = [pc EXCEPT ![i] = "ended"]
    /\ UNCHANGED <<BaseURL, resourceName, ready, autoInit, provider, service,
                   outcome, calls, resolved>>

\* defer c.mu.Unlock(): runs when init returns and when it panics.
Unlock(i) ==
    /\ pc[i] = "unlock"
    /\ mu' = 0
    /\ pc' = [pc EXCEPT ![i] = "ended"]
    /\ UNCHANGED <<BaseURL, resourceName, ready, autoInit, provider, service,
                   outcome, calls, resolved>>

\* What an unsynchronised read of c.BaseURL may return: the field's value,
\* or, while an init has written the field and not yet released the lock, a
\* value the field held earlier in that section (the read races the writes).
Writing(i) == pc[i] \in {"trim", "ready", "unlock"} /\ outcome[i] \in {"none", "ok"}

ReadBaseURL ==
    {BaseURL} \cup
    UNION {{NoString, ToLower(service[i])} : i \in {j \in Attempts : Writing(j)}}

Paths == {<<<<"/", "u", "/">>, Verb_s>>}
PathArgs == {<<>>, <<<<"7">>>>}

\* return fmt.Sprintf("%s%s", c.BaseURL, fmt.Sprintf(path, args...))
ResolveURL(path, args) ==
    /\ \E base \in ReadBaseURL : resolved' = base \o Sprintf(path, args)
    /\ UNCHANGED <<BaseURL, resourceName, ready, mu, autoInit, pc, provider,
                   service, outcome, calls>>

(***************************************************************************)
(* The verb methods: GET, DELETE, PUT, POST, PATCH                         *)
(***************************************************************************)
BodyVerbs == {"PUT", "POST", "PATCH"}
Verbs == {"GET", "DELETE"} \cup BodyVerbs

\* Target URLs: without a query, with a query, and one that url.Parse
\* rejects (it holds an ASCII control character).
URLs == {
    <<"h", ":", "/", "/", "s", "/", "p">>,
    <<"h", ":", "/", "/", "s", "/", "p", "?", "a", "=", "1">>,
    <<"h", ":", "/", "/", "s", "\t">> }

\* Request bodies: nil, a value json.Marshal encodes, and one it cannot
\* encode (a channel).  NoBody is what GET and DELETE pass to NewRequest.
Bodies == {"nil", "struct", "chan"}
NoBody == "none"

\* json.Marshal(body): <<data, err>>
Marshal(b) ==
    IF b = "nil" THEN [data |-> <<"n", "u", "l", "l">>, err |-> "nil"]
    ELSE IF b = "struct" THEN [data |-> <<"{", "}">>, err |-> "nil"]
    ELSE [data |-> NoString, err |-> "json: unsupported type"]

\* http.Header with canonical keys; Header.Set replaces the key's value.
NoHeader == [k \in {} |-> ""]
HeaderSet(h, key, value) ==
    [k \in DOMAIN h \cup {key} |-> IF k = key THEN value ELSE h[k]]

\* http.NewRequest(method, url, body): url.Parse splits the raw query off at
\* the first "?" and fails on a control character.
NoRequest ==
    [method |-> "", URL |-> NoString, RawQuery |-> NoString,
     Header |-> NoHeader, Body |-> NoString, ok |-> FALSE]

NewRequest(method, u, bodyData) ==
    IF \E k \in 1..Len(u) : Code(u[k]) < 32
    THEN NoRequest
    ELSE LET parts == Cut(u, "?")
         IN  [method |-> method, URL |-> parts[1], RawQuery |-> parts[2],
              Header |-> NoHeader, Body |-> bodyData, ok |-> TRUE]

\* Request modifiers: func(req *http.Request)
SetHeader(key, value) ==
    [kind |-> "header", key |-> key, value |-> value, data |-> InvalidValue]
QueryMod(d) == [kind |-> "query", key |-> "", value |-> "", data |-> d]
PanicMod == [kind |-> "panic", key |-> "", value |-> "", data |-> InvalidValue]

ParamStruct ==
    GoValue("struct", 0, FALSE,
            <<Field(<<"P", "a", "r", "a", "m">>, NoString,
                    StrVal(<<"v", "a", "l", "u", "e">>))>>)
EscapedStruct ==
    GoValue("struct", 0, FALSE,
            <<Field(<<"B">>, <<"b", "/">>, StrVal(<<"a", " ", "&", "=">>)),
              Field(<<"A", "g", "e">>, <<"a", "g", "e">>, IntVal(25))>>)
UnexportedStruct ==
    GoValue("struct", 0, FALSE, <<Field(<<"a", "g", "e">>, NoString, IntVal(7))>>)

Modifiers == {
    SetHeader("Authorization", "Bearer token"),
    SetHeader("Content-Type", "text/plain"),
    QueryMod(ParamStruct),
    QueryMod(EscapedStruct),
    QueryMod(GoValue("string", 0, FALSE, <<>>)),
    QueryMod(UnexportedStruct),
    PanicMod }

Modified(r) == [req |-> r, panicked |-> FALSE]
ModifierPanic(r) == [req |-> r, panicked |-> TRUE]

\* The modifier assigning the raw query instead of appending to it.
QueryParameterRequestModifierAssigning(queryParams, r) ==
    LET params == StructToQueryParams(queryParams)
    IN  IF params.panicked \/ params.err # "nil"
        THEN ModifierPanic(r)
        ELSE Modified([r EXCEPT !.RawQuery = params.str])

\* The closure QueryParameterRequestModifier(queryParams) returns, applied
\* to request r.
QueryParameterRequestModifier(queryParams, r) ==
    LET params == StructToQueryParams(queryParams)
    IN  IF params.panicked \/ params.err # "nil"
        THEN ModifierPanic(r)
        ELSE Modified([r EXCEPT !.RawQuery = @ \o params.str])

\* modifier(req)
ApplyModifier(m, r) ==
    IF m.kind = "header"
    THEN Modified([r EXCEPT !.Header = HeaderSet(@, m.key, m.value)])
    ELSE IF m.kind = "query" THEN QueryParameterRequestModifier(m.data, r)
    ELSE ModifierPanic(r)

\* What http.DefaultClient.Do(req) may return: a response of any status
\* with no error; no response and the transport's error; or, when the
\* client's redirect policy fails, the last response together with an error.
NoResponse == 0
Statuses == {200, 404, 500}
NoResult == [resp |-> NoResponse, err |-> "nil"]
ClientDo(r) ==
    {[resp |-> st, err |-> "nil"] : st \in Statuses}
        \cup {[resp |-> NoResponse, err |-> "transport"]}
        \cup {[resp |-> 302, err |-> "stopped after 10 redirects"]}

Event(e, k) == [e |-> e, k |-> k]

\* A client that was never initialised, or one on which
\* WithConfigProvider(p) has returned.
InitializedClient(p) ==
    /\ resourceName = <<"r">>
    /\ autoInit = FALSE
    /\ BaseURL = TrimSuffix(ToLower(p.addr), <<"/">>)
    /\ ready = TRUE
    /\ mu = 0
    /\ pc = [i \in Attempts |-> IF i = 1 THEN "ended" ELSE "idle"]
    /\ provider = [i \in Attempts |-> IF i = 1 THEN p ELSE NoProvider]
    /\ service = [i \in Attempts |-> IF i = 1 THEN p.addr ELSE NoString]
    /\ outcome = [i \in Attempts |-> IF i = 1 THEN "ok" ELSE "none"]
    /\ calls = <<[by |-> 1, serviceName |-> resourceName, portType |-> serviceType]>>
    /\ resolved = NoString

VerbIdle ==
    /\ vpc = "idle"
    /\ verb = ""
    /\ url = NoString
    /\ body = NoBody
    /\ mods = <<>>
    /\ midx = 0
    /\ req = NoRequest
    /\ applied = <<>>
    /\ dispatched = <<>>
    /\ result = NoResult

\* c.GET(url, mods...), c.DELETE(url, mods...), c.PUT(url, body, mods...), ...
Call(method, u, b, ms) ==
    /\ vpc = "idle"
    /\ verb' = method
    /\ url' = u
    /\ body' = b
    /\ mods' = ms
    /\ vpc' = IF method \in BodyVerbs THEN "marshal" ELSE "newRequest"
    /\ UNCHANGED <<midx, req, applied, dispatched, result>>

\* MarshalBody that drops json.Marshal's error.
MarshalBodyIgnoringError ==
    /\ vpc = "marshal"
    /\ vpc' = "newRequest"
    /\ UNCHANGED <<verb, url, body, mods, midx, req, applied, dispatched, result>>

\* bodyData, err := json.Marshal(body); if err != nil { return nil, err }
MarshalBody ==
    /\ vpc = "marshal"
    /\ IF Marshal(body).err # "nil"
       THEN /\ result' = [resp |-> NoResponse, err |-> Marshal(body).err]
            /\ vpc' = "returned"
       ELSE /\ vpc' = "newRequest"
            /\ UNCHANGED result
    /\ UNCHANGED <<verb, url, body, mods, midx, req, applied, dispatched>>

\* req, err := http.NewRequest(verb, url, body); if err != nil { return nil, err }
BuildRequest ==
    /\ vpc = "newRequest"
    /\ LET bodyData == IF verb \in BodyVerbs THEN Marshal(body).data ELSE NoString
           r == NewRequest(verb, url, bodyData)
       IN  IF ~r.ok
           THEN /\ result' = [resp |-> NoResponse, err |-> "parse"]
                /\ vpc' = "returned"
                /\ UNCHANGED <<req, midx>>
           ELSE /\ req' = r
                /\ midx' = 1
                /\ vpc' = IF verb \in BodyVerbs THEN "contentType" ELSE "modifiers"
                /\ UNCHANGED result
    /\ UNCHANGED <<verb, url, body, mods, applied, dispatched>>

\* req.Header.Set("Content-Type", "application/json")
SetContentType ==
    /\ vpc = "contentType"
    /\ req' = [req EXCEPT !.Header = HeaderSet(@, "Content-Type", "application/json")]
    /\ applied' = Append(applied, Event("contentType", 0))
    /\ vpc' = "modifiers"
    /\ UNCHANGED <<verb, url, body, mods, midx, dispatched, result>>

\* RunModifier that recovers a modifier's panic and goes on to the next.
RunModifierRecovering ==
    /\ vpc = "modifiers"
    /\ midx <= Len(mods)
    /\ LET r == ApplyModifier(mods[midx], req)
       IN  /\ req' = r.req
           /\ midx' = midx + 1
           /\ applied' = IF r.panicked THEN applied
                         ELSE Append(applied, Event("modifier", midx))
    /\ UNCHANGED <<vpc, verb, url, body, mods, dispatched, result>>

\* for _, modifier := range requestModifier { modifier(req) }
RunModifier ==
    /\ vpc = "modifiers"
    /\ midx <= Len(mods)
    /\ LET r == ApplyModifier(mods[midx], req)
       IN  /\ req' = r.req
           /\ IF r.panicked
              THEN /\ vpc' = "panicked"
                   /\ UNCHANGED <<midx, applied>>
              ELSE /\ midx' = midx + 1
                   /\ applied' = Append(applied, Event("modifier", midx))
                   /\ UNCHANGED vpc
    /\ UNCHANGED <<verb, url, body, mods, dispatched, result>>

\* Do that sends the request again when the transport fails.
DoWithRetry ==
    /\ vpc = "modifiers"
    /\ midx > Len(mods)
    /\ \E r \in ClientDo(req) :
          /\ result' = r
          /\ dispatched' = IF r.err = "transport" THEN dispatched \o <<req, req>>
                           ELSE Append(dispatched, req)
    /\ applied' = Append(applied, Event("do", 0))
    /\ vpc' = "returned"
    /\ UNCHANGED <<verb, url, body, mods, midx, req>>

\* return http.DefaultClient.Do(req)
Do ==
    /\ vpc = "modifiers"
    /\ midx > Len(mods)
    /\ dispatched' = Append(dispatched, req)
    /\ applied' = Append(applied, Event("do", 0))
    /\ result' \in ClientDo(req)
    /\ vpc' = "returned"
    /\ UNCHANGED <<verb, url, body, mods, midx, req>>

\* The modifier lists a call may pass.
ModifierLists == SeqsUpTo(Modifiers, MaxMods)

(***************************************************************************)
(* Specifications                                                          *)
(***************************************************************************)
\* The life of one client: its initialisation attempts and ResolveURL.
Init == ClientInit /\ VerbIdle /\ QueryInit /\ data = InvalidValue

OnlyClient == UNCHANGED <<verbVars, queryVars>>

\* The steps of init attempt i, once it has been entered.
InitStep(i) ==
    \/ Lock(i)
    \/ CheckReady(i)
    \/ GetServiceAddress(i)
    \/ SetLower(i)
    \/ TrimSlash(i)
    \/ SetReady(i)
    \/ Unlock(i)

Next ==
    \/ \E i \in Attempts, p \in Providers : WithConfigProvider(i, p) /\ OnlyClient
    \/ \E i \in Attempts, p \in Providers : OnReady(i, p) /\ OnlyClient
    \/ \E i \in Attempts : Lock(i) /\ OnlyClient
    \/ \E i \in Attempts : CheckReady(i) /\ OnlyClient
    \/ \E i \in Attempts : GetServiceAddress(i) /\ OnlyClient
    \/ \E i \in Attempts : SetLower(i) /\ OnlyClient
    \/ \E i \in Attempts : TrimSlash(i) /\ OnlyClient
    \/ \E i \in Attempts : SetReady(i) /\ OnlyClient
    \/ \E i \in Attempts : Unlock(i) /\ OnlyClient
    \/ \E path \in Paths, args \in PathArgs : ResolveURL(path, args) /\ OnlyClient

Spec == Init /\ [][Next]_vars

\* The scheduler runs every goroutine that can take a step, sync.Mutex hands
\* the lock to a waiter once it is free, and GetServiceAddress returns.
Fairness == \A i \in Attempts : WF_vars(InitStep(i) /\ OnlyClient)

FairSpec == Spec /\ Fairness

\* One call of a verb method on a client.
VerbInit ==
    /\ \/ ClientInit /\ resourceName = <<"r">> /\ ~autoInit
       \/ InitializedClient([addr |-> <<"H", ":", "/", "/", "E", "x", "/">>,
                             fails |-> FALSE])
    /\ VerbIdle
    /\ data = InvalidValue
    /\ out = NotCalled

OnlyVerb == UNCHANGED <<clientVars, queryVars>>

VerbNext ==
    \/ /\ vpc = "idle"
       /\ \E method \in Verbs, u \in URLs, ms \in ModifierLists :
            \E b \in (IF method \in BodyVerbs THEN Bodies ELSE {NoBody}) :
               Call(method, u, b, ms)
       /\ OnlyVerb
    \/ MarshalBody /\ OnlyVerb
    \/ BuildRequest /\ OnlyVerb
    \/ SetContentType /\ OnlyVerb
    \/ RunModifier /\ OnlyVerb
    \/ Do /\ OnlyVerb

SpecVerb == VerbInit /\ [][VerbNext]_vars

\* One call of StructToQueryParams.
QueryOnlyInit == ClientInit /\ resourceName = <<"r">> /\ ~autoInit /\ VerbIdle /\ QueryInit

QueryStep == CallStructToQueryParams /\ UNCHANGED <<clientVars, verbVars>>

SpecQuery == QueryOnlyInit /\ [][QueryStep]_vars

(***************************************************************************)
(* Properties of initialisation, checked under Spec and FairSpec           *)
(***************************************************************************)
Slash == <<"/">>

\* The address, lowercased, with one trailing slash removed.
Normalized(addr) == TrimSuffix(ToLower(addr), Slash)

InSection(i) == pc[i] \in {"check", "resolve", "lower", "trim", "ready", "unlock"}
Ended(i) == pc[i] = "ended"
CalledBy(i) == {k \in 1..Len(calls) : calls[k].by = i}

\* C1: ready goes from false to true at most once and never back; an init
\* attempt that finds ready set panics ("Client already initialized") without
\* consulting its resolver, whatever the resolver would return, and ready and
\* BaseURL stay as the first initialisation set them.
C1_InitializedOnce ==
    /\ [](/\ Cardinality({i \in Attempts : outcome[i] = "ok"}) <= 1
          /\ \A i \in Attempts :
                /\ pc[i] \in {"resolve", "lower", "trim", "ready"} => ~ready
                /\ outcome[i] = "panicInitialized" => ready /\ CalledBy(i) = {})
    /\ [][/\ ready => ready' /\ BaseURL' = BaseURL
          /\ \A i \in Attempts :
                (pc[i] = "check" /\ pc'[i] # "check" /\ ready)
                    => /\ outcome'[i] = "panicInitialized"
                       /\ calls' = calls
                       /\ pc'[i] = "unlock"]_vars

\* An attempt panicked on double initialisation although its resolver would
\* have returned another address than the one the client was initialised with.
C1_Witness ==
    \E i, j \in Attempts :
        /\ outcome[i] = "ok" /\ Ended(i)
        /\ outcome[j] = "panicInitialized" /\ Ended(j)
        /\ ~provider[j].fails
        /\ Normalized(provider[j].addr) # BaseURL

\* C2: once WithConfigProvider has returned, BaseURL is the address the
\* resolver returned, lowercased and with the trailing slash stripped
\* ("HTTP://Ex/" gives "http://ex"), and the resolver was asked for the
\* client's resource name with port type "rest".
C2_BaseURLNormalized ==
    \A i \in Attempts :
        (outcome[i] = "ok" /\ Ended(i)) =>
            /\ ~provider[i].fails
            /\ BaseURL = Normalized(provider[i].addr)
            /\ \A k \in 1..Len(BaseURL) : ~IsUpper(BaseURL[k])
            /\ provider[i].addr = <<"H", "T", "T", "P", ":", "/", "/", "E", "x", "/">>
                 => BaseURL = <<"h", "t", "t", "p", ":", "/", "/", "e", "x">>
            /\ Cardinality(CalledBy(i)) = 1
            /\ \A k \in CalledBy(i) :
                  calls[k].serviceName = resourceName /\ calls[k].portType = "rest"

C2_Witness ==
    \E i \in Attempts :
        /\ outcome[i] = "ok" /\ Ended(i)
        /\ ~autoInit
        /\ provider[i].addr = <<"H", "T", "T", "P", ":", "/", "/", "E", "x", "/">>
        /\ BaseURL = <<"h", "t", "t", "p", ":", "/", "/", "e", "x">>

\* C8 as stated: in every reachable state, BaseURL is empty while ready is
\* false and is the normalised resolved address whenever ready is true.
C8_EmptyUntilReady ==
    /\ ~ready => BaseURL = NoString
    /\ ready => \E i \in Attempts : outcome[i] = "ok" /\ BaseURL = Normalized(service[i])

\* C8, amended: while ready is false BaseURL is empty, except that an init
\* attempt holding the lock has written the lowercased address (before
\* TrimSuffix) or the normalised address (after it) without having set ready
\* yet; whenever ready is true BaseURL is the normalised resolved address and
\* never changes again.
C8_EmptyUntilWritten ==
    /\ [](/\ ~ready =>
                IF \E i \in Attempts : pc[i] \in {"trim", "ready"}
                THEN \A i \in Attempts :
                        /\ pc[i] = "trim" => BaseURL = ToLower(service[i])
                        /\ pc[i] = "ready" => BaseURL = Normalized(service[i])
                        /\ pc[i] \in {"trim", "ready"} => mu = i
                ELSE BaseURL = NoString
          /\ ready =>
                \E i \in Attempts : outcome[i] = "ok" /\ BaseURL = Normalized(service[i]))
    /\ [][ready => ready' /\ BaseURL' = BaseURL]_vars

\* A ResolveURL call has returned on an initialised client with a non-empty
\* base, and an earlier state had the base written with ready still false.
C8_Witness ==
    /\ ready
    /\ BaseURL # NoString
    /\ resolved = BaseURL \o <<"/", "u", "/", "7">>

\* C9: concurrent init attempts exclude each other from the
\* check-resolve-write section; only an attempt whose resolver does not fail,
\* holding the lock on a client that is not ready, writes ready or BaseURL;
\* as soon as an attempt with a non-failing resolver has ended exactly one
\* attempt has initialised the client and every other ended attempt panicked;
\* an attempt whose resolver failed leaves ready false; the lock is released
\* when an attempt ends, however it ends, and every attempt ends.
C9_MutualExclusion ==
    /\ [](/\ Cardinality({i \in Attempts : InSection(i)}) <= 1
          /\ \A i \in Attempts : InSection(i) <=> mu = i
          /\ \A i \in Attempts :
                /\ Ended(i) => outcome[i] \in {"ok", "panicInitialized", "panicResolver"}
                /\ outcome[i] = "ok" => ~provider[i].fails
                /\ outcome[i] = "panicResolver" => provider[i].fails
                /\ (outcome[i] = "panicResolver" /\ InSection(i)) => ~ready
          /\ (\E i \in Attempts : Ended(i) /\ ~provider[i].fails)
                => /\ ready
                   /\ Cardinality({i \in Attempts : outcome[i] = "ok"}) = 1
          /\ (\A i \in Attempts : pc[i] \in {"idle", "lock", "ended"}) => mu = 0)
    /\ [][(BaseURL' # BaseURL \/ ready' # ready)
            => /\ mu \in Attempts
               /\ mu' = mu
               /\ ~provider[mu].fails
               /\ ~ready
               /\ pc[mu] \in {"lower", "trim", "ready"}]_vars
    /\ \A i \in Attempts : (pc[i] # "idle") ~> Ended(i)

\* The OnReady callback of an autoInit client and another attempt ran
\* concurrently: one waited for the lock while the other was in the section;
\* one initialised the client, the other panicked, and the lock is free.
C9_Witness ==
    \E i, j \in Attempts :
        /\ autoInit
        /\ outcome[i] = "ok" /\ Ended(i)
        /\ outcome[j] = "panicInitialized" /\ Ended(j)
        /\ j < i
        /\ mu = 0

(***************************************************************************)
(* Properties of the verb methods, checked under SpecVerb                  *)
(***************************************************************************)
HeaderKeys == {"Authorization", "Content-Type"}

\* A modifier that panics when it is applied.
Panics(m) ==
    \/ m.kind = "panic"
    \/ /\ m.kind = "query"
       /\ StructToQueryParams(m.data).panicked \/ StructToQueryParams(m.data).err # "nil"

BodyFails == verb \in BodyVerbs /\ body = "chan"
URLFails == \E k \in 1..Len(url) : url[k] = "\t"

\* What a call does, in order, when modifiers 1..n run and it then
\* dispatches (withDo) or not.
ExpectedEvents(n, withDo) ==
    (IF verb \in BodyVerbs THEN <<Event("contentType", 0)>> ELSE <<>>)
        \o [k \in 1..n |-> Event("modifier", k)]
        \o (IF withDo THEN <<Event("do", 0)>> ELSE <<>>)

\* The request after the default header and modifiers 1..n: each header
\* holds the value the last modifier that set it gave it, the raw query is
\* the URL's followed by what each query modifier appended.
Setters(n, key) == {k \in 1..n : mods[k].kind = "header" /\ mods[k].key = key}
Last(S) == CHOOSE k \in S : \A j \in S : j <= k

ExpectedHeader(n) ==
    [key \in {h \in HeaderKeys :
                 Setters(n, h) # {} \/ (h = "Content-Type" /\ verb \in BodyVerbs)} |->
        IF Setters(n, key) # {} THEN mods[Last(Setters(n, key))].value
        ELSE "application/json"]

ExpectedQuery(n) ==
    Cut(url, "?")[2]
        \o Concat([k \in 1..n |->
                      IF mods[k].kind = "query"
                      THEN StructToQueryParams(mods[k].data).str ELSE <<>>])

ExpectedRequest(n) ==
    [method |-> verb, URL |-> Cut(url, "?")[1], RawQuery |-> ExpectedQuery(n),
     Header |-> ExpectedHeader(n),
     Body |-> IF verb = "GET" \/ verb = "DELETE" THEN NoString
              ELSE IF body = "nil" THEN <<"n", "u", "l", "l">> ELSE <<"{", "}">>,
     ok |-> TRUE]

IsPrefix(a, b) == Len(a) <= Len(b) /\ a = SubSeq(b, 1, Len(a))

\* C3: a verb call with modifiers m1..mn builds the request with the verb's
\* method, for POST/PUT/PATCH sets Content-Type: application/json before m1,
\* applies each modifier once in the order given, and only then dispatches
\* the request, once; the dispatched request carries the headers the
\* modifiers set, a modifier's Content-Type replacing the default.
C3_ModifiersThenDispatch ==
    /\ Len(dispatched) <= 1
    /\ IsPrefix(applied, ExpectedEvents(Len(mods), TRUE))
    /\ (vpc = "returned" /\ ~BodyFails /\ ~URLFails) =>
          /\ applied = ExpectedEvents(Len(mods), TRUE)
          /\ dispatched = <<ExpectedRequest(Len(mods))>>
          /\ dispatched[1].method = verb
          /\ verb \in BodyVerbs /\ Setters(Len(mods), "Content-Type") = {}
                => dispatched[1].Header["Content-Type"] = "application/json"
          /\ \A k \in 1..Len(mods) :
                mods[k].kind = "header" =>
                    /\ mods[k].key \in DOMAIN dispatched[1].Header
                    /\ (\A j \in (k + 1)..Len(mods) : mods[j] # mods[k] => mods[j].key # mods[k].key)
                          => dispatched[1].Header[mods[k].key] = mods[k].value

\* POST with two header modifiers was dispatched: the Authorization header
\* is carried and text/plain replaced the default content type.
C3_Witness ==
    /\ vpc = "returned"
    /\ verb = "POST"
    /\ mods = <<SetHeader("Authorization", "Bearer token"),
                SetHeader("Content-Type", "text/plain")>>
    /\ Len(dispatched) = 1
    /\ dispatched[1].Header["Authorization"] = "Bearer token"
    /\ dispatched[1].Header["Content-Type"] = "text/plain"

ClaimedKey(f) ==
    CASE f.name = <<"N", "a", "m", "e">> -> <<"n", "a", "m", "e">>
      [] f.name = <<"A", "g", "e">> -> <<"a", "g", "e">>
      [] f.name = <<"P", "a", "r", "a", "m">> -> <<"p", "a", "r", "a", "m">>
      [] f.name = <<"B">> -> <<"b", "/">>
      [] f.name = <<"Q">> -> <<"Z", "z">>
      [] f.name = <<"Z", "e", "d">> -> <<"n", "a", "m", "e">>
      [] f.name = <<"a", "g", "e">> -> <<"a", "g", "e">>

ClaimedText(f) ==
    CASE f.name = <<"N", "a", "m", "e">> -> <<"j", "o", "h", "n">>
      [] f.name = <<"A", "g", "e">> -> <<"2", "5">>
      [] f.name = <<"P", "a", "r", "a", "m">> -> <<"v", "a", "l", "u", "e">>
      [] f.name = <<"B">> -> <<"a", " ", "&", "=">>
      [] f.name = <<"Q">> -> <<"0">>
      [] f.name = <<"Z", "e", "d">> -> NoString
      [] f.name = <<"a", "g", "e">> -> <<"7">>

\* The query parameters a server reads from a struct's fields: for each key
\* the texts of the fields with that key, in field order.
RECURSIVE FieldTexts(_, _)
FieldTexts(fields, key) ==
    IF fields = <<>> THEN <<>>
    ELSE (IF ClaimedKey(Head(fields)) = key THEN <<ClaimedText(Head(fields))>> ELSE <<>>)
             \o FieldTexts(Tail(fields), key)

FieldValues(fields) ==
    [key \in {ClaimedKey(fields[k]) : k \in 1..Len(fields)} |-> FieldTexts(fields, key)]

\* C7: applying QueryParameterRequestModifier(data) sets the raw query to
\* the previous raw query followed directly by StructToQueryParams(data) and
\* changes nothing else of the request; when the previous raw query was empty
\* the request's query parameters are exactly data's fields ({Param:"value"}
\* gives param = "value").
C7_QueryAppended ==
    /\ [][(/\ vpc = "modifiers"
           /\ midx <= Len(mods)
           /\ mods[midx].kind = "query"
           /\ midx' = midx + 1)
          => LET params == StructToQueryParams(mods[midx].data)
             IN  /\ ~params.panicked /\ params.err = "nil"
                 /\ req'.RawQuery = req.RawQuery \o params.str
                 /\ [req' EXCEPT !.RawQuery = req.RawQuery] = req
                 /\ req.RawQuery = NoString
                       => ParseQuery(req'.RawQuery) = FieldValues(mods[midx].data.fields)]_vars
    /\ [](/\ dispatched # <<>>
          /\ Len(mods) = 1
          /\ mods[1].kind = "query"
          /\ Cut(url, "?")[2] = NoString
          => /\ ParseQuery(dispatched[1].RawQuery) = FieldValues(mods[1].data.fields)
             /\ mods[1].data = ParamStruct
                   => ParseQuery(dispatched[1].RawQuery)[<<"p", "a", "r", "a", "m">>]
                         = <<<<"v", "a", "l", "u", "e">>>>)

\* GET on a URL that has a query, with the modifier of {Param:"value"}: the
\* encoded fields follow the URL's query directly.
C7_Witness ==
    /\ verb = "GET"
    /\ mods = <<QueryMod(ParamStruct)>>
    /\ Len(dispatched) = 1
    /\ url = <<"h", ":", "/", "/", "s", "/", "p", "?", "a", "=", "1">>
    /\ dispatched[1].RawQuery =
          <<"a", "=", "1", "p", "a", "r", "a", "m", "=", "v", "a", "l", "u", "e">>

FirstPanic == Last({k \in 1..Len(mods) : \A j \in 1..k : j = k <=> Panics(mods[j])})
SomePanics == \E k \in 1..Len(mods) : Panics(mods[k])

\* C10: when the k-th modifier of a call panics the call ends in that panic:
\* no later modifier runs, nothing is dispatched, nothing is returned, the
\* request keeps what modifiers 1..k-1 did to it, and the client's ready and
\* BaseURL are unchanged.
C10_ModifierPanicAborts ==
    /\ [](/\ (SomePanics /\ ~BodyFails /\ ~URLFails) =>
                /\ vpc # "returned"
                /\ dispatched = <<>>
                /\ result = NoResult
                /\ IsPrefix(applied, ExpectedEvents(FirstPanic - 1, FALSE))
                /\ (vpc = "modifiers" /\ midx = FirstPanic) =>
                        req = ExpectedRequest(FirstPanic - 1)
          /\ vpc = "panicked" =>
                /\ SomePanics
                /\ midx = FirstPanic
                /\ applied = ExpectedEvents(FirstPanic - 1, FALSE)
                /\ req = ExpectedRequest(FirstPanic - 1))
    /\ [][/\ ready' = ready /\ BaseURL' = BaseURL
          /\ vpc = "panicked" => UNCHANGED verbVars]_vars

\* The second modifier, wrapping data that is not a record, panicked; the
\* header the first modifier set is still on the request.
C10_Witness ==
    /\ vpc = "panicked"
    /\ mods = <<SetHeader("Authorization", "Bearer token"),
                QueryMod(GoValue("string", 0, FALSE, <<>>))>>
    /\ req.Header["Authorization"] = "Bearer token"
    /\ dispatched = <<>>
    /\ ready /\ BaseURL = <<"h", ":", "/", "/", "e", "x">>

(***************************************************************************)
(* Properties of StructToQueryParams, checked under SpecQuery              *)
(***************************************************************************)
IsStruct(v) == v.kind = "struct" /\ v.ptrs = 0
IsStructPointer(v) == v.kind = "struct" /\ v.ptrs = 1 /\ ~v.isNil

ReturnedError == out.called /\ ~out.panicked /\ out.err # "nil"
ReturnedNil == out.called /\ ~out.panicked /\ out.err = "nil"

\* C5 as stated: a non-nil error and "" for every input that is not a
\* struct; a nil error only when the input is a struct.
C5_ErrorUnlessStruct ==
    out.called =>
        /\ ~IsStruct(data) => ReturnedError /\ out.str = NoString
        /\ ReturnedNil => IsStruct(data)

\* C5, amended: a non-nil error and "" for every input that is neither a
\* struct nor a non-nil pointer to a struct (the function follows one
\* pointer); a nil error only when the input is one of those two.
C5_ErrorUnlessStructOrPointer ==
    out.called =>
        /\ ~(IsStruct(data) \/ IsStructPointer(data)) => ReturnedError /\ out.str = NoString
        /\ ReturnedNil => IsStruct(data) \/ IsStructPointer(data)

\* StructToQueryParams("not a struct") returned an error and no output.
C5_Witness ==
    /\ data = GoValue("string", 0, FALSE, <<>>)
    /\ ReturnedError
    /\ out.str = NoString

\* The key=value pairs of a query string, decoded, in the order written.
RECURSIVE Pairs(_)
Pairs(q) ==
    IF q = <<>> THEN <<>>
    ELSE LET pair == Cut(q, "&")
             kv == Cut(pair[1], "=")
         IN  <<[key |-> QueryUnescape(kv[1]), value |-> QueryUnescape(kv[2]),
                hasEq |-> kv[3]]>> \o Pairs(pair[2])

\* One pair per field (key: the query tag or else the lowercased
\* identifier; value: the field's textual form), "&" between pairs, no
\* leading "?", keys in ascending order.
OnePairPerField ==
    LET pairs == Pairs(out.str)
    IN  /\ ReturnedNil
        /\ Len(pairs) = Len(data.fields)
        /\ \A k \in 1..Len(pairs) : pairs[k].hasEq
        /\ ParseQuery(out.str) = FieldValues(data.fields)
        /\ out.str # <<>> => Head(out.str) # "?"
        /\ \A k \in 1..(Len(pairs) - 1) : ~StrLess(pairs[k + 1].key, pairs[k].key)
        /\ data.fields =
              <<Field(<<"N", "a", "m", "e">>, <<"n", "a", "m", "e">>,
                      StrVal(<<"j", "o", "h", "n">>)),
                Field(<<"A", "g", "e">>, <<"a", "g", "e">>, IntVal(25))>>
              => out.str = <<"a", "g", "e", "=", "2", "5", "&",
                             "n", "a", "m", "e", "=", "j", "o", "h", "n">>

\* C6: for every record passed to StructToQueryParams the output holds
\* exactly one key=value pair per field, zero-valued fields included, keyed
\* by the query tag or the lowercased identifier, joined by "&" with no
\* leading "?", in ascending order of key ({Name:"john", Age:25} gives
\* "age=25&name=john").
C6_OnePairPerField == (out.called /\ IsStruct(data)) => OnePairPerField

\* What does hold: the same for every record whose fields are all exported;
\* a record with an unexported field makes the function panic.
C6_ExportedFieldsOnly ==
    (out.called /\ IsStruct(data)) =>
        IF \A k \in 1..Len(data.fields) : IsUpper(Head(data.fields[k].name))
        THEN OnePairPerField
        ELSE out.panicked

====
